---------------------------- MODULE Spec2Model ----------------------------
(***************************************************************************)
(* Model of the FerreInti storefront backend (src/backend/server.py, with  *)
(* the same shipping engine in src/backend/server_local.py).               *)
(*                                                                         *)
(* Numbers.  The program computes in binary floating point; the model      *)
(* computes in exact decimal fixed point and so abstracts the binary       *)
(* representation error of a float:                                        *)
(*   - a coordinate is an integer number of 1e-7 degrees                   *)
(*     (-12.1190285 degrees is -121190285);                                *)
(*   - a distance or a radius (km in the code) is an integer number of     *)
(*     metres, i.e. the km value times 1000 (5.0 km is 5000);              *)
(*   - an amount of money, and the price per km, is an integer number of   *)
(*     thousandths, i.e. the value times 1000 (1.50 is 1500);              *)
(*   - the product of two such values is held times 10^6.                  *)
(* An Optional value is None (the empty tuple) or the 1-tuple <<v>>.       *)
(***************************************************************************)
EXTENDS Integers, Sequences, FiniteSets, TLC

None == << >>

Some(v) == << v >>

Val(o) == o[1]

Abs(x) == IF x < 0 THEN -x ELSE x

\* The integer nearest to n / d (d > 0), a tie going to the even neighbour:
\* the rounding rule of Python's round().
RoundHalfEven(n, d) ==
    LET q == n \div d
        r == n % d
    IN  IF 2 * r < d THEN q
        ELSE IF 2 * r > d THEN q + 1
        ELSE IF q % 2 = 0 THEN q ELSE q + 1

\* A variant that rounds to 3 decimals.
round3(x) == RoundHalfEven(x, 1)

\* round(x, 2) of a value held times 1000; the result is held times 1000.
round2(x) == RoundHalfEven(x, 10) * 10

\* round(x, 2) of a value held times 10^6; the result is held times 1000.
round2_product(x) == RoundHalfEven(x, 10000) * 10

\* int(x) of the quotient n / d (d > 0): truncation towards zero.
int(n, d) == IF n >= 0 THEN n \div d ELSE -((-n) \div d)

-----------------------------------------------------------------------------
(* Shipping engine: server.py lines 196-267.                               *)

\* Earth's radius in km.
R == 6371

\* math.radians(x) for x >= 0 in 1e-7 degrees; the result in 1e-8 radians.
\* One degree is 0.0174532925 rad = 1745329.25 of these units.
radians(x) ==
    LET deg == x \div 10000000
        f1  == (x % 10000000) \div 10000
        f2  == x % 10000
    IN  deg * 1745329 + deg \div 4 + (f1 * 1745329) \div 1000
          + (f2 * 17453) \div 100000

\* R * c in metres, for an angle c >= 0 in 1e-8 radians, to the nearest metre.
arc_length(c) ==
    LET ch == c \div 100000
        cl == c % 100000
    IN  RoundHalfEven(R * ch * 100 + (R * cl) \div 1000, 100)

\* A variant that measures the latitude of the destination from the equator
\* instead of from the first point.
haversine_distance_from_equator(lat1, lon1, lat2, lon2) ==
    LET delta_lat == lat2
    IN  CASE lon1 = lon2 ->
             LET c == radians(Abs(delta_lat))
             IN  arc_length(c)

\* haversine_distance, on the pairs of points that share a meridian
\* (lon1 = lon2).  There delta_lon = 0, so a = sin^2(delta_lat / 2),
\* sqrt(a) = |sin(delta_lat / 2)|, sqrt(1 - a) = cos(delta_lat / 2) (both
\* latitudes lie in [-90, 90], so |delta_lat| / 2 <= 90 degrees), and
\* c = 2 * atan2(sqrt(a), sqrt(1 - a)) = |radians(delta_lat)|.  The
\* general case needs sin, cos, sqrt and atan2 of arbitrary arguments and
\* is left undefined: evaluating it outside lon1 = lon2 is an error of the
\* model, never a silent value.
haversine_distance(lat1, lon1, lat2, lon2) ==
    LET delta_lat == lat2 - lat1
    IN  CASE lon1 = lon2 ->
             LET c == radians(Abs(delta_lat))
             IN  arc_length(c)

ConfigFields ==
    {"store_lat", "store_lng", "free_radius_km", "price_per_km",
     "min_shipping_cost"}

\* A variant whose default radius is 0.
ShippingConfig_no_free_radius ==
    [store_lat         |-> -121190285,
     store_lng         |-> -770349915,
     free_radius_km    |-> 0,
     price_per_km      |-> 1500,
     min_shipping_cost |-> 5000]

\* class ShippingConfig: the field defaults.
ShippingConfig ==
    [store_lat         |-> -121190285,
     store_lng         |-> -770349915,
     free_radius_km    |-> 5000,
     price_per_km      |-> 1500,
     min_shipping_cost |-> 5000]

\* A variant that ignores the stored document.
ShippingConfigFrom_ignored(config) == ShippingConfig

\* ShippingConfig(**config): the document's fields over the defaults.  A
\* settings document is a function from ConfigFields to Optional values, None
\* standing for a field the document does not have.
ShippingConfigFrom(config) ==
    [f \in ConfigFields |->
        IF config[f] # None THEN Val(config[f]) ELSE ShippingConfig[f]]

\* db.settings.find_one({"setting_id": "shipping_config"}): the collection
\* is a set of documents, all of them with that setting_id.
find_shipping_config(db_settings) ==
    IF db_settings = {} THEN None
    ELSE Some(CHOOSE d \in db_settings : TRUE)

\* A variant that keeps the configuration resolved at start-up, when no
\* document existed, instead of reading the collection.
get_shipping_config_start_up(db_settings) == ShippingConfig

get_shipping_config(db_settings) ==
    LET config == find_shipping_config(db_settings)
    IN  IF config # None THEN ShippingConfigFrom(Val(config))
        ELSE ShippingConfig

\* A variant with a strict comparison.
within_free_radius_strict(config, distance) ==
    distance < config.free_radius_km

\* A variant that compares the reported (rounded) distance.
within_free_radius_reported(config, distance) ==
    round2(distance) <= config.free_radius_km

\* A variant that reads a radius of 0 as "no limit".
within_free_radius_unlimited(config, distance) ==
    config.free_radius_km = 0 \/ distance <= config.free_radius_km

\* `if distance <= config.free_radius_km` of calculate_shipping_cost.
within_free_radius(config, distance) ==
    distance <= config.free_radius_km

\* A variant without the minimum.
paid_cost_no_floor(config, distance) ==
    (distance - config.free_radius_km) * config.price_per_km

\* A variant that caps the cost at the minimum instead of raising it.
paid_cost_reversed(config, distance) ==
    LET cost == (distance - config.free_radius_km) * config.price_per_km
    IN  IF cost > config.min_shipping_cost * 1000
        THEN config.min_shipping_cost * 1000
        ELSE cost

\* A variant with a long-distance discount: half the rate when more than
\* 5 km lie beyond the radius.
paid_cost_discount(config, distance) ==
    LET extra_km == distance - config.free_radius_km
        cost     == IF extra_km > 5000
                    THEN (extra_km * config.price_per_km) \div 2
                    ELSE extra_km * config.price_per_km
    IN  IF cost < config.min_shipping_cost * 1000
        THEN config.min_shipping_cost * 1000
        ELSE cost

\* The cost beyond the free radius, before its rounding: extra_km *
\* price_per_km, raised to min_shipping_cost when it is below it.  The
\* result is held times 10^6.
paid_cost(config, distance) ==
    LET extra_km == distance - config.free_radius_km
        cost     == extra_km * config.price_per_km
    IN  IF cost < config.min_shipping_cost * 1000
        THEN config.min_shipping_cost * 1000
        ELSE cost

\* calculate_shipping_cost(lat, lng) against the settings collection.  The
\* "message" string of server.py, a rendering of the same numbers, is not
\* modelled.
calculate_shipping_cost(db_settings, lat, lng) ==
    LET config   == get_shipping_config(db_settings)
        distance == haversine_distance(config.store_lat, config.store_lng,
                                       lat, lng)
    IN  IF within_free_radius(config, distance)
        THEN [distance_km   |-> round2(distance),
              shipping_cost |-> 0,
              is_free       |-> TRUE]
        ELSE [distance_km   |-> round2(distance),
              shipping_cost |-> round2_product(paid_cost(config, distance)),
              is_free       |-> FALSE]

-----------------------------------------------------------------------------
(* The database (one variable per MongoDB collection the model needs), the *)
(* clock, the identifiers handed out so far, and the last request served   *)
(* with its response.                                                      *)

VARIABLES
    users,                 \* db.users: [user_id, email, password, role]
    user_sessions,         \* db.user_sessions: [session_token, user_id, expires_at]
    products,              \* db.products: [product_id, price, category_id]
    categories,            \* db.categories: [category_id, name]
    carts,                 \* db.carts: [user_id, items]
    orders,                \* db.orders
    payment_transactions,  \* db.payment_transactions
    settings,              \* db.settings: the shipping_config documents
    issued,                \* how many uuid-based identifiers of each kind exist
    now,                   \* the clock, in days
    last,                  \* the last request served and its response
    calls                  \* the requests being served step by step

vars ==
    << users, user_sessions, products, categories, carts, orders,
       payment_transactions, settings, issued, now, last, calls >>

\* Groups of collections, for UNCHANGED.
auth_vars == << users, user_sessions >>

shop_vars == << products, categories, carts, orders, payment_transactions >>

\* timedelta(days=7): the life of a session.
SessionDays == 7

\* The identifiers seed_data gives its categories and products are fixed
\* strings: the model writes "cat_manual" and "prod_001" as tuples, apart
\* from every generated identifier.
cat_manual == << "cat", -1 >>

prod_001 == << "prod", -1 >>

\* A uuid-based identifier: the n-th of its kind, never handed out twice.
NewId(kind) == << kind, issued[kind] + 1 >>

Issue(kind) == [issued EXCEPT ![kind] = @ + 1]

hash_password(password) == << "sha256", password >>

\* `if x` on an Optional[float]: None and 0.0 are both false.
truthy(o) == o # None /\ Val(o) # 0

\* get_current_user: the user of the request's session token (cookie or
\* bearer), None without a token, a session, an unexpired session or a user.
get_current_user(session_token) ==
    IF session_token = None THEN None
    ELSE LET found == {s \in user_sessions : s.session_token = Val(session_token)}
         IN  IF found = {} THEN None
             ELSE LET session == CHOOSE s \in found : TRUE
                      owner   == {u \in users : u.user_id = session.user_id}
                  IN  IF session.expires_at < now THEN None
                      ELSE IF owner = {} THEN None
                      ELSE Some(CHOOSE u \in owner : TRUE)

\* require_auth: 0 when the request passes, else the status of the HTTPException.
require_auth(session_token) ==
    IF get_current_user(session_token) = None THEN 401 ELSE 0

\* A variant that admits every authenticated user.
require_admin_any_user(session_token) ==
    IF get_current_user(session_token) = None THEN 401 ELSE 0

\* require_admin, likewise.
require_admin(session_token) ==
    LET user == get_current_user(session_token)
    IN  IF user = None THEN 401
        ELSE IF Val(user).role # "admin" THEN 403
        ELSE 0

\* What the model keeps of a request served: the operation, its input, the
\* status and body of the response and, for the handlers that use them, what
\* the shipping calculator returned to the handler (None when it was not
\* invoked) and the line_items the handler sent to the payment provider
\* (None when it sent nothing).
Served(op, request, status, body, shipping_result, line_items) ==
    [op |-> op, request |-> request, status |-> status, body |-> body,
     shipping_result |-> shipping_result, line_items |-> line_items]

Response(op, request, status, body) ==
    Served(op, request, status, body, None, None)

Init ==
    /\ users = {}
    /\ user_sessions = {}
    /\ products = {}
    /\ categories = {}
    /\ carts = {}
    /\ orders = {}
    /\ payment_transactions = {}
    /\ settings = {}
    /\ issued = [user |-> 0, token |-> 0, prod |-> 0, cat |-> 0, order |-> 0,
                 txn |-> 0]
    /\ now = 0
    /\ last = Response("start", None, 0, None)
    /\ calls = {}

-----------------------------------------------------------------------------
(* Authentication.                                                         *)

\* `role = "admin" if user_count == 0 else "customer"` of register.
role_for_always_customer(user_count) == "customer"

role_for(user_count) == IF user_count = 0 THEN "admin" ELSE "customer"

\* POST /auth/register
register(email, password) ==
    LET existing == {u \in users : u.email = email}
        user_id  == NewId("user")
        role     == role_for(Cardinality(users))
        session_token == NewId("token")
    IN  IF existing # {}
        THEN /\ last' = Response("register", email, 400, None)
             /\ UNCHANGED << calls, auth_vars, shop_vars, settings, issued, now >>
        ELSE /\ users' = users \cup
                    {[user_id |-> user_id, email |-> email,
                      password |-> Some(hash_password(password)), role |-> role]}
             /\ user_sessions' = user_sessions \cup
                    {[session_token |-> session_token, user_id |-> user_id,
                      expires_at |-> now + SessionDays]}
             /\ issued' = [issued EXCEPT !.user = @ + 1, !.token = @ + 1]
             /\ last' = Response("register", email, 200,
                                 [user_id |-> user_id, role |-> role,
                                  session_token |-> session_token])
             /\ UNCHANGED << calls, shop_vars, settings, now >>

\* A variant that accepts any password of a known email.
login_any_password(credentials) ==
    {u \in users : u.email = credentials.email}

\* `not user or user.get("password") != hash_password(credentials.password)`
\* fails: the users (at most one) of that email and password.
login_matching(credentials) ==
    {u \in users : /\ u.email = credentials.email
                   /\ u.password = Some(hash_password(credentials.password))}

\* POST /auth/login.  credentials is [email, password].
login(credentials) ==
    LET matching == login_matching(credentials)
        user == CHOOSE u \in matching : TRUE
        session_token == NewId("token")
    IN  IF matching = {}
        THEN /\ last' = Response("login", credentials, 401, None)
             /\ UNCHANGED << calls, auth_vars, shop_vars, settings, issued, now >>
        ELSE /\ user_sessions' = user_sessions \cup
                    {[session_token |-> session_token, user_id |-> user.user_id,
                      expires_at |-> now + SessionDays]}
             /\ issued' = Issue("token")
             /\ last' = Response("login", credentials, 200,
                                 [user_id |-> user.user_id, email |-> user.email,
                                  role |-> user.role,
                                  session_token |-> session_token])
             /\ UNCHANGED << calls, users, shop_vars, settings, now >>

\* GET /auth/me: the user of the session, without the password (class User
\* has no such field).
get_me(session_token) ==
    LET denied == require_auth(session_token)
        user   == Val(get_current_user(session_token))
    IN  /\ last' =
             IF denied # 0 THEN Response("get_me", session_token, denied, None)
             ELSE Response("get_me", session_token, 200,
                           [user_id |-> user.user_id, email |-> user.email,
                            role |-> user.role])
        /\ UNCHANGED << calls, auth_vars, shop_vars, settings, issued, now >>

\* POST /auth/logout: deletes the session of the cookie's token, if any.
logout(session_token) ==
    /\ user_sessions' =
         IF session_token # None
         THEN {s \in user_sessions : s.session_token # Val(session_token)}
         ELSE user_sessions
    /\ last' = Response("logout", session_token, 200, None)
    /\ UNCHANGED << calls, users, shop_vars, settings, issued, now >>

\* PUT /admin/users/{user_id}/role
admin_update_user_role(session_token, user_id, role) ==
    LET denied  == require_admin(session_token)
        matched == {u \in users : u.user_id = user_id}
        status  == IF denied # 0 THEN denied
                   ELSE IF role \notin {"customer", "admin"} THEN 400
                   ELSE IF matched = {} THEN 404
                   ELSE 200
    IN  /\ users' =
             IF status = 200
             THEN {IF u.user_id = user_id THEN [u EXCEPT !.role = role] ELSE u :
                      u \in users}
             ELSE users
        /\ last' = Response("admin_update_user_role",
                            IF denied # 0 THEN None
                            ELSE [user_id |-> user_id, role |-> role],
                            status, None)
        /\ UNCHANGED << calls, user_sessions, shop_vars, settings, issued, now >>

\* More than the life of a session passes.
pass_time ==
    /\ now' = now + SessionDays + 1
    /\ last' = Response("pass_time", None, 0, None)
    /\ UNCHANGED << calls, auth_vars, shop_vars, settings, issued >>

-----------------------------------------------------------------------------
(* Shipping routes and the administrative update of the configuration.     *)

\* GET /shipping/config
get_shipping_config_route ==
    /\ last' = Response("get_shipping_config_route", None, 200,
                        get_shipping_config(settings))
    /\ UNCHANGED << calls, auth_vars, shop_vars, settings, issued, now >>

\* A variant that tests the truth value of the coordinates.
missing_coordinates_falsy(address) ==
    ~truthy(address.lat) \/ ~truthy(address.lng)

\* `if data.address.lat is None or data.address.lng is None`
missing_coordinates(address) ==
    address.lat = None \/ address.lng = None

\* A variant whose resolution of the configuration stores the defaults when
\* no document exists.
calculate_shipping_storing(address) ==
    /\ last' =
         IF missing_coordinates(address)
         THEN Response("calculate_shipping", address, 400, None)
         ELSE Response("calculate_shipping", address, 200,
                       calculate_shipping_cost(settings, Val(address.lat),
                                               Val(address.lng)))
    /\ settings' =
         IF missing_coordinates(address) \/ settings # {} THEN settings
         ELSE {[f \in ConfigFields |-> Some(ShippingConfig[f])]}
    /\ UNCHANGED << calls, auth_vars, shop_vars, issued, now >>

\* POST /shipping/calculate
calculate_shipping(address) ==
    /\ last' =
         IF missing_coordinates(address)
         THEN Response("calculate_shipping", address, 400, None)
         ELSE Response("calculate_shipping", address, 200,
                       calculate_shipping_cost(settings, Val(address.lat),
                                               Val(address.lng)))
    /\ UNCHANGED << calls, auth_vars, shop_vars, settings, issued, now >>

\* GET /admin/shipping
admin_get_shipping(session_token) ==
    LET denied == require_admin(session_token)
    IN  /\ last' =
             IF denied # 0
             THEN Response("admin_get_shipping", None, denied, None)
             ELSE Response("admin_get_shipping", None, 200,
                           get_shipping_config(settings))
        /\ UNCHANGED << calls, auth_vars, shop_vars, settings, issued, now >>

\* A variant that replaces the whole document: the fields update_data does
\* not have are dropped.
upsert_shipping_config_replace(db_settings, update_data) ==
    {[f \in ConfigFields |-> update_data[f]]}

\* The update_one(..., {"$set": update_data}, upsert=True) of the settings
\* document: the fields of update_data replace the document's, the others
\* stay, and a document that does not exist yet starts with no field.
upsert_shipping_config(db_settings, update_data) ==
    LET old == IF db_settings = {} THEN [f \in ConfigFields |-> None]
               ELSE CHOOSE d \in db_settings : TRUE
    IN  {[f \in ConfigFields |->
            IF update_data[f] # None THEN update_data[f] ELSE old[f]]}

\* PUT /admin/shipping.  config_data is a ShippingConfigUpdate: a function
\* from ConfigFields to Optional values.
\* require_admin is a dependency: when it rejects the caller the handler's
\* body does not run and the exchange records no request body.
admin_update_shipping(session_token, config_data) ==
    LET denied == require_admin(session_token)
        update_data == {f \in ConfigFields : config_data[f] # None}
    IN  IF denied # 0
        THEN /\ last' = Response("admin_update_shipping", None, denied, None)
             /\ UNCHANGED << calls, auth_vars, shop_vars, settings, issued, now >>
        ELSE IF update_data = {}
        THEN /\ last' = Response("admin_update_shipping", config_data, 400, None)
             /\ UNCHANGED << calls, auth_vars, shop_vars, settings, issued, now >>
        ELSE /\ settings' = upsert_shipping_config(settings, config_data)
             /\ last' = Response("admin_update_shipping", config_data, 200, None)
             /\ UNCHANGED << calls, auth_vars, shop_vars, issued, now >>

-----------------------------------------------------------------------------
(* Catalogue, cart, orders and checkout.                                   *)

\* POST /admin/products.  Of a product the model keeps the price and the
\* category.
admin_create_product(session_token, product_data) ==
    LET denied == require_admin(session_token)
        product_id == NewId("prod")
    IN  IF denied # 0
        THEN /\ last' = Response("admin_create_product", None, denied, None)
             /\ UNCHANGED << calls, auth_vars, shop_vars, settings, issued, now >>
        ELSE /\ products' = products \cup
                    {[product_id  |-> product_id,
                      price       |-> product_data.price,
                      category_id |-> product_data.category_id]}
             /\ issued' = Issue("prod")
             /\ last' = Response("admin_create_product", product_data, 200,
                                 [product_id |-> product_id])
             /\ UNCHANGED << calls, auth_vars, categories, carts, orders,
                             payment_transactions, settings, now >>

\* db.products.find_one({"product_id": product_id})
find_product(product_id) ==
    LET found == {p \in products : p.product_id = product_id}
    IN  IF found = {} THEN None ELSE Some(CHOOSE p \in found : TRUE)

\* GET /products/{product_id}
get_product(product_id) ==
    LET product == find_product(product_id)
    IN  /\ last' =
             IF product = None THEN Response("get_product", product_id, 404, None)
             ELSE Response("get_product", product_id, 200, Val(product))
        /\ UNCHANGED << calls, auth_vars, shop_vars, settings, issued, now >>

\* A variant that replaces the document: a field the update does not have
\* is reset.
product_set_replace(product, update_data) ==
    [product_id  |-> product.product_id,
     price       |-> IF update_data.price # None
                     THEN Val(update_data.price) ELSE 0,
     category_id |-> IF update_data.category_id # None
                     THEN Val(update_data.category_id) ELSE << "cat", 0 >>]

\* {"$set": update_data} on a product: update_data is a ProductUpdate, of
\* which the model keeps the Optional price and category_id.
product_set(product, update_data) ==
    [product_id  |-> product.product_id,
     price       |-> IF update_data.price # None
                     THEN Val(update_data.price) ELSE product.price,
     category_id |-> IF update_data.category_id # None
                     THEN Val(update_data.category_id) ELSE product.category_id]

\* PUT /admin/products/{product_id}
admin_update_product(session_token, product_id, product_data) ==
    LET denied  == require_admin(session_token)
        request == [product_id |-> product_id, product_data |-> product_data]
        matched == {p \in products : p.product_id = product_id}
    IN  IF denied # 0
        THEN /\ last' = Response("admin_update_product", None, denied, None)
             /\ UNCHANGED << calls, auth_vars, shop_vars, settings, issued, now >>
        ELSE IF product_data.price = None /\ product_data.category_id = None
        THEN /\ last' = Response("admin_update_product", request, 400, None)
             /\ UNCHANGED << calls, auth_vars, shop_vars, settings, issued, now >>
        ELSE IF matched = {}
        THEN /\ last' = Response("admin_update_product", request, 404, None)
             /\ UNCHANGED << calls, auth_vars, shop_vars, settings, issued, now >>
        ELSE /\ products' =
                  {IF p \in matched THEN product_set(p, product_data) ELSE p :
                      p \in products}
             /\ last' = Response("admin_update_product", request, 200, None)
             /\ UNCHANGED << calls, auth_vars, categories, carts, orders,
                             payment_transactions, settings, issued, now >>

\* DELETE /admin/products/{product_id}
admin_delete_product(session_token, product_id) ==
    LET denied  == require_admin(session_token)
        matched == {p \in products : p.product_id = product_id}
    IN  IF denied # 0
        THEN /\ last' = Response("admin_delete_product", None, denied, None)
             /\ UNCHANGED << calls, auth_vars, shop_vars, settings, issued, now >>
        ELSE IF matched = {}
        THEN /\ last' = Response("admin_delete_product", product_id, 404, None)
             /\ UNCHANGED << calls, auth_vars, shop_vars, settings, issued, now >>
        ELSE /\ products' = products \ matched
             /\ last' = Response("admin_delete_product", product_id, 200, None)
             /\ UNCHANGED << calls, auth_vars, categories, carts, orders,
                             payment_transactions, settings, issued, now >>

\* POST /admin/categories.  Of a category the model keeps the name.
admin_create_category(session_token, category_data) ==
    LET denied == require_admin(session_token)
        category_id == NewId("cat")
    IN  IF denied # 0
        THEN /\ last' = Response("admin_create_category", None, denied, None)
             /\ UNCHANGED << calls, auth_vars, shop_vars, settings, issued, now >>
        ELSE /\ categories' = categories \cup
                    {[category_id |-> category_id, name |-> category_data.name]}
             /\ issued' = Issue("cat")
             /\ last' = Response("admin_create_category", category_data, 200,
                                 [category_id |-> category_id])
             /\ UNCHANGED << calls, auth_vars, products, carts, orders,
                             payment_transactions, settings, now >>

\* A variant that never finds a product of the category.
products_count_none(category_id) == 0

\* db.products.count_documents({"category_id": category_id})
products_count(category_id) ==
    Cardinality({p \in products : p.category_id = category_id})

\* DELETE /admin/categories/{category_id}
admin_delete_category(session_token, category_id) ==
    LET denied  == require_admin(session_token)
        matched == {c \in categories : c.category_id = category_id}
    IN  IF denied # 0
        THEN /\ last' = Response("admin_delete_category", None, denied, None)
             /\ UNCHANGED << calls, auth_vars, shop_vars, settings, issued, now >>
        ELSE IF products_count(category_id) > 0
        THEN /\ last' = Response("admin_delete_category", category_id, 400, None)
             /\ UNCHANGED << calls, auth_vars, shop_vars, settings, issued, now >>
        ELSE IF matched = {}
        THEN /\ last' = Response("admin_delete_category", category_id, 404, None)
             /\ UNCHANGED << calls, auth_vars, shop_vars, settings, issued, now >>
        ELSE /\ categories' = categories \ matched
             /\ last' = Response("admin_delete_category", category_id, 200, None)
             /\ UNCHANGED << calls, auth_vars, products, carts, orders,
                             payment_transactions, settings, issued, now >>

\* The other categories of seed_data, whose products are "prod_004" to
\* "prod_015" (<< "prod", -4 >> to << "prod", -15 >>).
cat_electric == << "cat", -2 >>

cat_conexiones == << "cat", -3 >>

cat_bano == << "cat", -4 >>

cat_cocina == << "cat", -5 >>

cat_ruedas == << "cat", -6 >>

\* seed_data: the `categories` list (category_id and name).
seed_categories ==
    {[category_id |-> cat_manual, name |-> "Herramientas Manuales"],
     [category_id |-> cat_electric, name |-> "Herramientas Eléctricas"],
     [category_id |-> cat_conexiones, name |-> "Conexiones Eléctricas"],
     [category_id |-> cat_bano, name |-> "Accesorios para Baño"],
     [category_id |-> cat_cocina, name |-> "Accesorios para Cocina"],
     [category_id |-> cat_ruedas, name |-> "Ruedas para Muebles"]}

\* seed_data: the `products` list (product_id, price, category_id).
seed_products ==
    {[product_id |-> prod_001, price |-> 25990,
      category_id |-> cat_manual],
     [product_id |-> << "prod", -2 >>, price |-> 18500,
      category_id |-> cat_manual],
     [product_id |-> << "prod", -3 >>, price |-> 15990,
      category_id |-> cat_manual],
     [product_id |-> << "prod", -4 >>, price |-> 89990,
      category_id |-> cat_electric],
     [product_id |-> << "prod", -5 >>, price |-> 75000,
      category_id |-> cat_electric],
     [product_id |-> << "prod", -6 >>, price |-> 45500,
      category_id |-> cat_electric],
     [product_id |-> << "prod", -7 >>, price |-> 55000,
      category_id |-> cat_conexiones],
     [product_id |-> << "prod", -8 >>, price |-> 65000,
      category_id |-> cat_conexiones],
     [product_id |-> << "prod", -9 >>, price |-> 35990,
      category_id |-> cat_bano],
     [product_id |-> << "prod", -10 >>, price |-> 42000,
      category_id |-> cat_bano],
     [product_id |-> << "prod", -11 >>, price |-> 68500,
      category_id |-> cat_cocina],
     [product_id |-> << "prod", -12 >>, price |-> 22000,
      category_id |-> cat_cocina],
     [product_id |-> << "prod", -13 >>, price |-> 12990,
      category_id |-> cat_ruedas],
     [product_id |-> << "prod", -14 >>, price |-> 24500,
      category_id |-> cat_ruedas],
     [product_id |-> << "prod", -15 >>, price |-> 8990,
      category_id |-> cat_ruedas]}

\* seed_data: the default shipping configuration it stores.
seed_shipping_config ==
    [store_lat         |-> Some(-121190285),
     store_lng         |-> Some(-770349915),
     free_radius_km    |-> Some(5000),
     price_per_km      |-> Some(1500),
     min_shipping_cost |-> Some(5000)]

\* A variant that takes the database for empty whatever it holds.
already_seeded_never(db_categories) == FALSE

\* existing = await db.categories.find_one(); if existing: ...
already_seeded(db_categories) == db_categories # {}

\* POST /seed, which asks for no session.  The body is the message of the
\* response: TRUE for "Datos iniciales creados exitosamente", FALSE for
\* "Datos ya existentes".
seed_data ==
    IF already_seeded(categories)
    THEN /\ last' = Response("seed_data", None, 200, FALSE)
         /\ UNCHANGED << calls, auth_vars, shop_vars, settings, issued, now >>
    ELSE /\ categories' = categories \cup seed_categories
         /\ products' = products \cup seed_products
         /\ settings' = upsert_shipping_config(settings, seed_shipping_config)
         /\ last' = Response("seed_data", None, 200, TRUE)
         /\ UNCHANGED << calls, auth_vars, carts, orders, payment_transactions,
                         issued, now >>

\* db.carts.find_one({"user_id": user_id})
find_cart(user_id) ==
    LET found == {c \in carts : c.user_id = user_id}
    IN  IF found = {} THEN None ELSE Some(CHOOSE c \in found : TRUE)

\* A variant that appends the item whatever the cart holds.
cart_items_add_appending(items, item) == Append(items, item)

\* The items of a cart after add_to_cart's merge of `item`: the quantity of
\* the first entry with the item's product_id grows, or the item is appended.
cart_items_add(items, item) ==
    LET hits == {i \in 1..Len(items) : items[i].product_id = item.product_id}
    IN  IF hits # {}
        THEN LET existing_idx == CHOOSE i \in hits : \A j \in hits : i <= j
             IN  [items EXCEPT ![existing_idx].quantity = @ + item.quantity]
        ELSE Append(items, item)

\* POST /cart/add
add_to_cart(session_token, item) ==
    LET denied == require_auth(session_token)
        user   == Val(get_current_user(session_token))
        cart   == find_cart(user.user_id)
    IN  IF denied # 0
        THEN /\ last' = Response("add_to_cart", None, denied, None)
             /\ UNCHANGED << calls, auth_vars, shop_vars, settings, issued, now >>
        ELSE /\ carts' =
                  IF cart = None
                  THEN carts \cup {[user_id |-> user.user_id, items |-> << item >>]}
                  ELSE (carts \ {Val(cart)}) \cup
                       {[Val(cart) EXCEPT !.items = cart_items_add(@, item)]}
             /\ last' = Response("add_to_cart", item, 200, None)
             /\ UNCHANGED << calls, auth_vars, products, categories, orders,
                             payment_transactions, settings, issued, now >>

\* The items of a cart after update_cart_item's loop: the first entry with
\* the item's product_id is popped when the quantity is <= 0 and gets the
\* quantity otherwise; without such an entry nothing changes.
cart_items_update(items, item) ==
    LET hits == {i \in 1..Len(items) : items[i].product_id = item.product_id}
    IN  IF hits = {} THEN items
        ELSE LET i == CHOOSE h \in hits : \A j \in hits : h <= j
             IN  IF item.quantity <= 0
                 THEN SubSeq(items, 1, i - 1) \o SubSeq(items, i + 1, Len(items))
                 ELSE [items EXCEPT ![i].quantity = item.quantity]

\* PUT /cart/update
update_cart_item(session_token, item) ==
    LET denied == require_auth(session_token)
        user   == Val(get_current_user(session_token))
        cart   == find_cart(user.user_id)
    IN  IF denied # 0
        THEN /\ last' = Response("update_cart_item", None, denied, None)
             /\ UNCHANGED << calls, auth_vars, shop_vars, settings, issued, now >>
        ELSE IF cart = None
        THEN /\ last' = Response("update_cart_item", item, 404, None)
             /\ UNCHANGED << calls, auth_vars, shop_vars, settings, issued, now >>
        ELSE /\ carts' = (carts \ {Val(cart)}) \cup
                    {[Val(cart) EXCEPT !.items = cart_items_update(@, item)]}
             /\ last' = Response("update_cart_item", item, 200, None)
             /\ UNCHANGED << calls, auth_vars, products, categories, orders,
                             payment_transactions, settings, issued, now >>

\* {"$pull": {"items": {"product_id": product_id}}}: every entry of the
\* product goes.
cart_items_pull(items, product_id) ==
    SelectSeq(items, LAMBDA x : x.product_id # product_id)

\* DELETE /cart/remove/{product_id}.  update_one without upsert: a user
\* without a cart gets none.
remove_from_cart(session_token, product_id) ==
    LET denied == require_auth(session_token)
        user   == Val(get_current_user(session_token))
    IN  IF denied # 0
        THEN /\ last' = Response("remove_from_cart", None, denied, None)
             /\ UNCHANGED << calls, auth_vars, shop_vars, settings, issued, now >>
        ELSE /\ carts' =
                  {IF c.user_id = user.user_id
                   THEN [c EXCEPT !.items = cart_items_pull(@, product_id)]
                   ELSE c : c \in carts}
             /\ last' = Response("remove_from_cart", product_id, 200, None)
             /\ UNCHANGED << calls, auth_vars, products, categories, orders,
                             payment_transactions, settings, issued, now >>

\* The items of a request or of a cart that name an existing product.
RECURSIVE items_with_details(_)
items_with_details(items) ==
    IF items = << >> THEN << >>
    ELSE LET item    == Head(items)
             product == find_product(item.product_id)
         IN  IF product # None
             THEN << [product_id |-> item.product_id,
                      quantity   |-> item.quantity,
                      price      |-> Val(product).price] >>
                  \o items_with_details(Tail(items))
             ELSE items_with_details(Tail(items))

\* subtotal += product["price"] * item.quantity, over those items.
RECURSIVE subtotal_of(_)
subtotal_of(details) ==
    IF details = << >> THEN 0
    ELSE Head(details).price * Head(details).quantity + subtotal_of(Tail(details))

\* `if address.lat and address.lng` of create_order and create_checkout.
has_coordinates(address) == truthy(address.lat) /\ truthy(address.lng)

\* "# Calculate shipping" of create_order and create_checkout: the result of
\* the calculator when it is invoked, None when it is not.
shipping_result_for(db_settings, address) ==
    IF has_coordinates(address)
    THEN Some(calculate_shipping_cost(db_settings, Val(address.lat),
                                      Val(address.lng)))
    ELSE None

\* A variant that charges the default minimum when the calculator was not
\* invoked.
shipping_cost_of_minimum(shipping_result) ==
    IF shipping_result # None THEN Val(shipping_result).shipping_cost
    ELSE ShippingConfig.min_shipping_cost

\* shipping_cost = 0, replaced by the calculator's cost when it was invoked.
shipping_cost_of(shipping_result) ==
    IF shipping_result # None THEN Val(shipping_result).shipping_cost ELSE 0

\* The carts after update_one({"user_id": user_id}, {"$set": {"items": []}}).
carts_cleared(user_id) ==
    {IF c.user_id = user_id THEN [c EXCEPT !.items = << >>] ELSE c : c \in carts}

\* DELETE /cart/clear
clear_cart(session_token) ==
    LET denied == require_auth(session_token)
        user   == Val(get_current_user(session_token))
    IN  IF denied # 0
        THEN /\ last' = Response("clear_cart", None, denied, None)
             /\ UNCHANGED << calls, auth_vars, shop_vars, settings, issued, now >>
        ELSE /\ carts' = carts_cleared(user.user_id)
             /\ last' = Response("clear_cart", None, 200, None)
             /\ UNCHANGED << calls, auth_vars, products, categories, orders,
                             payment_transactions, settings, issued, now >>

\* POST /orders.  order_data is [items, shipping_address].
create_order(session_token, order_data) ==
    LET denied   == require_auth(session_token)
        user     == Val(get_current_user(session_token))
        details  == items_with_details(order_data.items)
        subtotal == subtotal_of(details)
        shipping_result == shipping_result_for(settings, order_data.shipping_address)
        shipping_cost   == shipping_cost_of(shipping_result)
        total    == subtotal + shipping_cost
        order_doc ==
            [order_id         |-> NewId("order"),
             user_id          |-> user.user_id,
             items            |-> details,
             subtotal         |-> round2(subtotal),
             shipping_cost    |-> round2(shipping_cost),
             total            |-> round2(total),
             status           |-> "pending",
             shipping_address |-> order_data.shipping_address]
    IN  IF denied # 0
        THEN /\ last' = Response("create_order", order_data, denied, None)
             /\ UNCHANGED << calls, auth_vars, shop_vars, settings, issued, now >>
        ELSE /\ orders' = orders \cup {order_doc}
             /\ carts' = carts_cleared(user.user_id)
             /\ issued' = Issue("order")
             /\ last' = Served("create_order", order_data, 200, order_doc,
                               shipping_result, None)
             /\ UNCHANGED << calls, auth_vars, products, categories,
                             payment_transactions, settings, now >>

\* A variant that also takes "paid" for a status.
valid_statuses_and_paid ==
    {"pending", "confirmed", "shipped", "delivered", "cancelled", "paid"}

valid_statuses ==
    {"pending", "confirmed", "shipped", "delivered", "cancelled"}

\* PUT /admin/orders/{order_id}/status.  status_data is [status].
admin_update_order_status(session_token, order_id, status_data) ==
    LET denied  == require_admin(session_token)
        matched == {o \in orders : o.order_id = order_id}
        request == [order_id |-> order_id, status_data |-> status_data]
    IN  IF denied # 0
        THEN /\ last' = Response("admin_update_order_status", None, denied, None)
             /\ UNCHANGED << calls, auth_vars, shop_vars, settings, issued, now >>
        ELSE IF status_data.status \notin valid_statuses
        THEN /\ last' = Response("admin_update_order_status", request, 400, None)
             /\ UNCHANGED << calls, auth_vars, shop_vars, settings, issued, now >>
        ELSE IF matched = {}
        THEN /\ last' = Response("admin_update_order_status", request, 404, None)
             /\ UNCHANGED << calls, auth_vars, shop_vars, settings, issued, now >>
        ELSE /\ orders' = (orders \ matched) \cup
                    {[o EXCEPT !.status = status_data.status] : o \in matched}
             /\ last' = Response("admin_update_order_status", request, 200, None)
             /\ UNCHANGED << calls, auth_vars, products, categories, carts,
                             payment_transactions, settings, issued, now >>

\* The line items create_checkout builds from the cart: one per item whose
\* product exists, with unit_amount = int(product["price"] * 100) cents.
RECURSIVE product_line_items(_)
product_line_items(details) ==
    IF details = << >> THEN << >>
    ELSE << [name        |-> Head(details).product_id,
             unit_amount |-> int(Head(details).price, 10),
             quantity    |-> Head(details).quantity] >>
         \o product_line_items(Tail(details))

\* "# Add shipping as line item if applicable"
shipping_line_items(shipping_cost) ==
    IF shipping_cost > 0
    THEN << [name        |-> "Envio",
             unit_amount |-> int(shipping_cost, 10),
             quantity    |-> 1] >>
    ELSE << >>

\* POST /payments/checkout.  checkout_data is [shipping_address]; stripe_ok
\* is the payment provider's answer to Session.create: a session, or an
\* exception.
create_checkout(session_token, checkout_data, stripe_ok) ==
    LET denied   == require_auth(session_token)
        user     == Val(get_current_user(session_token))
        cart     == find_cart(user.user_id)
        details  == items_with_details(Val(cart).items)
        subtotal == subtotal_of(details)
        shipping_result == shipping_result_for(settings, checkout_data.shipping_address)
        shipping_cost   == shipping_cost_of(shipping_result)
        line_items == product_line_items(details) \o shipping_line_items(shipping_cost)
        total    == subtotal + shipping_cost
        session_id == << "cs", issued.txn + 1 >>
        transaction_doc ==
            [transaction_id   |-> NewId("txn"),
             session_id       |-> session_id,
             user_id          |-> user.user_id,
             subtotal         |-> round2(subtotal),
             shipping_cost    |-> round2(shipping_cost),
             amount           |-> round2(total),
             status           |-> "initiated",
             payment_status   |-> "pending",
             shipping_address |-> checkout_data.shipping_address]
    IN  IF denied # 0
        THEN /\ last' = Response("create_checkout", checkout_data, denied, None)
             /\ UNCHANGED << calls, auth_vars, shop_vars, settings, issued, now >>
        ELSE IF cart = None \/ Val(cart).items = << >>
        THEN /\ last' = Response("create_checkout", checkout_data, 400, None)
             /\ UNCHANGED << calls, auth_vars, shop_vars, settings, issued, now >>
        ELSE IF total <= 0
        THEN /\ last' = Served("create_checkout", checkout_data, 400, None,
                               shipping_result, None)
             /\ UNCHANGED << calls, auth_vars, shop_vars, settings, issued, now >>
        ELSE IF ~stripe_ok
        THEN /\ last' = Served("create_checkout", checkout_data, 500, None,
                               shipping_result, Some(line_items))
             /\ UNCHANGED << calls, auth_vars, shop_vars, settings, issued, now >>
        ELSE /\ payment_transactions' = payment_transactions \cup {transaction_doc}
             /\ issued' = Issue("txn")
             /\ last' = Served("create_checkout", checkout_data, 200,
                               [session_id    |-> session_id,
                                total         |-> total,
                                shipping_cost |-> shipping_cost],
                               shipping_result, Some(line_items))
             /\ UNCHANGED << calls, auth_vars, products, categories, carts, orders,
                             settings, now >>

-----------------------------------------------------------------------------
(* The requests the model sends.                                           *)

Emails == {"ana@ferreinti.pe", "luis@ferreinti.pe"}

Passwords == {"secreto"}

\* The session token of a request: none, or any token ever handed out.
SessionTokens == {None} \cup {Some(<< "token", n >>) : n \in 1..issued.token}

\* Latitudes of destinations: none, the equator (0.0), and the points due
\* north of the default store at 0 m, 5000 m, 5004 m, 5500 m and 10000 m.
Latitudes ==
    {None, Some(0), Some(-121190285), Some(-120740624), Some(-120740264),
     Some(-120695658), Some(-120290963)}

\* Destinations lie on the meridian of the store of the configuration in
\* force, where haversine_distance is modelled.
Addresses ==
    {[lat |-> la, lng |-> lo] :
        la \in Latitudes,
        lo \in {None, Some(get_shipping_config(settings).store_lng)}}

\* The ShippingConfigUpdate bodies of PUT /admin/shipping: every field is
\* absent or one of a few values (a store 10 km north of the default one or
\* on the Greenwich meridian, a radius of 0 or 10 km, a rate of 0.50 or
\* -1.00 per km, a minimum of 0 or 5.004).
ShippingConfigUpdates ==
    {[store_lat |-> a, store_lng |-> b, free_radius_km |-> c,
      price_per_km |-> d, min_shipping_cost |-> e] :
        a \in {None, Some(-120290963)},
        b \in {None, Some(0)},
        c \in {None, Some(0), Some(10000)},
        d \in {None, Some(500), Some(-1000)},
        e \in {None, Some(0), Some(5004)}}

-----------------------------------------------------------------------------
(* The shipping engine and its configuration, from an empty database.      *)

Next ==
    \/ \E email \in Emails, password \in Passwords : register(email, password)
    \/ \E t \in SessionTokens, config_data \in ShippingConfigUpdates :
          admin_update_shipping(t, config_data)
    \/ \E address \in Addresses : calculate_shipping(address)
    \/ get_shipping_config_route

Spec == Init /\ [][Next]_vars

-----------------------------------------------------------------------------
(* Orders and checkout, from a shop that is set up: the first user (admin) *)
(* is registered and holds a session, two products exist, the user's cart  *)
(* holds both of them and an item whose product does not exist, and the    *)
(* settings are the defaults or one of two documents an administrative     *)
(* update has stored.                                                      *)

\* How many orders and payment sessions the model creates.
MaxOrders == 1

MaxTransactions == 1

ShopUser ==
    [user_id |-> << "user", 1 >>, email |-> "ana@ferreinti.pe",
     password |-> Some(hash_password("secreto")), role |-> "admin"]

\* Prices 10.005 and 2.50.
ShopProducts ==
    {[product_id |-> << "prod", 1 >>, price |-> 10005, category_id |-> cat_manual],
     [product_id |-> << "prod", 2 >>, price |-> 2500, category_id |-> cat_manual]}

ShopItems ==
    << [product_id |-> << "prod", 1 >>, quantity |-> 2],
       [product_id |-> << "prod", 0 >>, quantity |-> 1],
       [product_id |-> << "prod", 2 >>, quantity |-> 1] >>

ShopSettings ==
    {{},
     {[store_lat |-> None, store_lng |-> None, free_radius_km |-> Some(0),
       price_per_km |-> None, min_shipping_cost |-> None]},
     {[store_lat |-> None, store_lng |-> None, free_radius_km |-> None,
       price_per_km |-> Some(500), min_shipping_cost |-> Some(5004)]}}

InitShop ==
    /\ users = {ShopUser}
    /\ user_sessions =
         {[session_token |-> << "token", 1 >>, user_id |-> ShopUser.user_id,
           expires_at |-> SessionDays]}
    /\ products = ShopProducts
    /\ categories = {}
    /\ carts = {[user_id |-> ShopUser.user_id, items |-> ShopItems]}
    /\ orders = {}
    /\ payment_transactions = {}
    /\ settings \in ShopSettings
    /\ issued = [user |-> 1, token |-> 1, prod |-> 2, cat |-> 0, order |-> 0,
                 txn |-> 0]
    /\ now = 0
    /\ last = Response("start", None, 0, None)
    /\ calls = {}

\* Destinations of orders and checkouts: no latitude, the equator, 10 km
\* north of the default store; no longitude or the store's.
ShopAddresses ==
    {[lat |-> la, lng |-> lo] :
        la \in {None, Some(0), Some(-120290963)},
        lo \in {None, Some(get_shipping_config(settings).store_lng)}}

OrderItemLists ==
    {ShopItems, << [product_id |-> << "prod", 2 >>, quantity |-> 3] >>}

place_order ==
    \E t \in SessionTokens, items \in OrderItemLists, address \in ShopAddresses :
        /\ issued.order < MaxOrders
        /\ create_order(t, [items |-> items, shipping_address |-> address])

check_out ==
    \E t \in SessionTokens, address \in ShopAddresses, stripe_ok \in BOOLEAN :
        /\ issued.txn < MaxTransactions
        /\ create_checkout(t, [shipping_address |-> address], stripe_ok)

quote_shipping == \E address \in ShopAddresses : calculate_shipping(address)

NextOrders == place_order \/ quote_shipping

SpecOrders == InitShop /\ [][NextOrders]_vars

NextShop == place_order \/ check_out \/ quote_shipping

SpecShop == InitShop /\ [][NextShop]_vars

-----------------------------------------------------------------------------
(* Properties of the shipping engine, checked under Spec.                  *)

\* The last request was a shipping calculation that returned a result.
Calculated == last.op = "calculate_shipping" /\ last.status = 200

\* The configuration in force and the unrounded distance of the destination
\* of that calculation (a calculation leaves the settings as they are).
ConfigInForce == get_shipping_config(settings)

DistanceOfLast ==
    haversine_distance(ConfigInForce.store_lat, ConfigInForce.store_lng,
                       Val(last.request.lat), Val(last.request.lng))

Max(x, y) == IF x >= y THEN x ELSE y

\* C1: a destination whose distance d from the store is <= free_radius_km,
\* d = free_radius_km included, is free: is_free = true and the cost is 0.
C1_FreeWithinRadius ==
    (Calculated /\ DistanceOfLast <= ConfigInForce.free_radius_km)
        => (last.body.is_free = TRUE /\ last.body.shipping_cost = 0)

\* A destination at exactly free_radius_km (> 0) from the store was priced.
C1_Witness ==
    /\ Calculated
    /\ DistanceOfLast = ConfigInForce.free_radius_km
    /\ DistanceOfLast > 0
    /\ last.body.is_free = TRUE

\* C2: a destination at d > free_radius_km is not free and costs
\* round(max((d - free_radius_km) * price_per_km, min_shipping_cost), 2);
\* under the default configuration 10 km cost 7.50.
C2_PaidBeyondRadius ==
    /\ (Calculated /\ DistanceOfLast > ConfigInForce.free_radius_km)
          => /\ last.body.is_free = FALSE
             /\ last.body.shipping_cost =
                  round2_product(
                      Max((DistanceOfLast - ConfigInForce.free_radius_km)
                              * ConfigInForce.price_per_km,
                          ConfigInForce.min_shipping_cost * 1000))
    /\ (Calculated /\ settings = {} /\ DistanceOfLast = 10000)
          => last.body.shipping_cost = 7500

\* Under the default configuration a destination 10 km away was priced above
\* the minimum.
C2_Witness ==
    /\ Calculated
    /\ settings = {}
    /\ DistanceOfLast = 10000
    /\ last.body.shipping_cost > ConfigInForce.min_shipping_cost

\* The floor applies: d > free_radius_km and the raw cost is below the minimum.
FloorApplies ==
    /\ Calculated
    /\ DistanceOfLast > ConfigInForce.free_radius_km
    /\ (DistanceOfLast - ConfigInForce.free_radius_km) * ConfigInForce.price_per_km
          < ConfigInForce.min_shipping_cost * 1000

\* C3 as stated: where the floor applies the cost is min_shipping_cost
\* exactly, unaltered by the rounding to 2 decimals.
C3_FloorExact ==
    FloorApplies => last.body.shipping_cost = ConfigInForce.min_shipping_cost

\* C3 as amended: where the floor applies the cost is min_shipping_cost
\* rounded to 2 decimals, not the raw cost.
C3_FloorRounded ==
    FloorApplies
        => last.body.shipping_cost = round2(ConfigInForce.min_shipping_cost)

\* The floor applied with a minimum of more than 2 decimals, and the cost
\* returned is not that minimum.
C3_Witness ==
    /\ FloorApplies
    /\ last.body.shipping_cost # ConfigInForce.min_shipping_cost
    /\ last.body.shipping_cost > 0

\* C5 as stated: is_free is true iff the reported distance_km (rounded to 2
\* decimals) is <= free_radius_km.
C5_FreeIffReportedWithin ==
    Calculated
        => (last.body.is_free <=>
              last.body.distance_km <= ConfigInForce.free_radius_km)

\* C5 as amended: is_free is true iff the unrounded distance is
\* <= free_radius_km.
C5_FreeIffWithin ==
    Calculated
        => (last.body.is_free <=>
              DistanceOfLast <= ConfigInForce.free_radius_km)

\* A destination just beyond the radius is not free although its reported
\* distance_km equals the radius.
C5_Witness ==
    /\ Calculated
    /\ last.body.is_free = FALSE
    /\ last.body.distance_km <= ConfigInForce.free_radius_km

\* C9: POST /shipping/calculate answers 400 iff lat or lng is absent, and
\* otherwise 200 with distance_km, shipping_cost and is_free.
C9_CalculateRejectsOnlyMissing ==
    last.op = "calculate_shipping"
        => /\ last.status \in {200, 400}
           /\ last.status = 400
                <=> (last.request.lat = None \/ last.request.lng = None)
           /\ last.status = 200
                => DOMAIN last.body = {"distance_km", "shipping_cost", "is_free"}

\* A destination on the equator (lat = 0.0, present) got a result.
C9_Witness ==
    /\ Calculated
    /\ last.request.lat = Some(0)
    /\ last.body.shipping_cost > 0

\* C10: with no settings document GET /shipping/config answers 200 with the
\* defaults: store (-12.1190285, -77.0349915), radius 5.0 km, 1.50 per km,
\* minimum 5.0.
C10_DefaultsWithoutRecord ==
    (last.op = "get_shipping_config_route" /\ settings = {})
        => /\ last.status = 200
           /\ last.body = [store_lat         |-> -121190285,
                           store_lng         |-> -770349915,
                           free_radius_km    |-> 5000,
                           price_per_km      |-> 1500,
                           min_shipping_cost |-> 5000]

\* The configuration was read while no settings document existed.
C10_Witness ==
    /\ last.op = "get_shipping_config_route"
    /\ settings = {}
    /\ last.status = 200

-----------------------------------------------------------------------------
(* Properties of orders and checkout, checked under SpecOrders and         *)
(* SpecShop.                                                               *)

Ordered == last.op = "create_order" /\ last.status = 200

CheckedOut == last.op = "create_checkout" /\ last.status = 200

\* Both coordinates of the last request's address are non-null.
BothCoordinates ==
    /\ last.request.shipping_address.lat # None
    /\ last.request.shipping_address.lng # None

\* What POST /shipping/calculate answers for the address of the last request.
QuotedCost ==
    calculate_shipping_cost(settings,
                            Val(last.request.shipping_address.lat),
                            Val(last.request.shipping_address.lng)).shipping_cost

\* The sum of price * quantity over the items whose product exists.
RECURSIVE SumExisting(_)
SumExisting(items) ==
    IF items = << >> THEN 0
    ELSE LET found == {p \in products : p.product_id = Head(items).product_id}
         IN  (IF found = {} THEN 0
              ELSE (CHOOSE p \in found : TRUE).price * Head(items).quantity)
             + SumExisting(Tail(items))

\* C4: for any non-null latitude and longitude, the shipping cost of an
\* order and of a checkout is the one POST /shipping/calculate gives for the
\* same coordinates under the same configuration.
C4_CallSitesAgree ==
    (Ordered \/ CheckedOut) /\ BothCoordinates
        => last.body.shipping_cost = QuotedCost

\* C6: an order whose address carries both coordinates has
\* total = subtotal + the calculator's cost for those coordinates, the
\* subtotal being the sum over the items whose product exists (amounts as
\* stored, rounded to 2 decimals).
C6_OrderTotalWithCoordinates ==
    Ordered /\ BothCoordinates
        => /\ last.body.subtotal = round2(SumExisting(last.request.items))
           /\ last.body.total =
                  round2(SumExisting(last.request.items) + QuotedCost)

\* C7: an order whose address lacks the latitude or the longitude (null) has
\* shipping cost 0 and total = subtotal, and the calculator is not invoked,
\* whatever the stored configuration.
C7_OrderWithoutCoordinates ==
    Ordered /\ ~BothCoordinates
        => /\ last.shipping_result = None
           /\ last.body.shipping_cost = 0
           /\ last.body.subtotal = round2(SumExisting(last.request.items))
           /\ last.body.total = last.body.subtotal

\* An order of existing products to an address with a latitude 10 km from
\* the store but no longitude, under a configuration that charges there.
C7_Witness ==
    /\ Ordered
    /\ last.request.shipping_address.lat # None
    /\ last.request.shipping_address.lng = None
    /\ get_shipping_config(settings).free_radius_km = 0
    /\ last.body.subtotal > 0
    /\ last.body \in orders

RECURSIVE CentsOf(_)
CentsOf(line_items) ==
    IF line_items = << >> THEN 0
    ELSE Head(line_items).unit_amount * Head(line_items).quantity
         + CentsOf(Tail(line_items))

\* The cart of the user of the last request (checkout leaves it alone).
CartOfLast ==
    CHOOSE c \in carts :
        \E t \in payment_transactions :
            t.session_id = last.body.session_id /\ t.user_id = c.user_id

\* C8: the line items a checkout sends to the payment provider sum, in
\* cents, to 100 * (subtotal + shipping cost); there is a shipping line item
\* exactly when the shipping cost is > 0; and that amount is the total
\* returned and the amount of the recorded transaction.  (Model amounts are
\* thousandths: 1 cent = 10.)
C8_CheckoutLineItems ==
    CheckedOut
        => LET line_items == Val(last.line_items)
               amount == SumExisting(CartOfLast.items) + last.body.shipping_cost
           IN  /\ CentsOf(line_items) * 10 = amount
               /\ (\E i \in 1..Len(line_items) : line_items[i].name = "Envio")
                      <=> last.body.shipping_cost > 0
               /\ last.body.total = amount
               /\ \E t \in payment_transactions :
                      /\ t.session_id = last.body.session_id
                      /\ t.amount = amount

-----------------------------------------------------------------------------
(* Properties of the stored configuration, checked under Spec.             *)

\* The settings document, when there is one.
StoredConfig == CHOOSE d \in settings : TRUE

\* C11: when a settings document exists, the configuration read has, for
\* each of the five fields, the stored value if the document has the field
\* and the default otherwise.
C11_StoredOverDefaults ==
    (last.op = "get_shipping_config_route" /\ settings # {})
        => /\ last.status = 200
           /\ \A f \in ConfigFields :
                 /\ StoredConfig[f] # None => last.body[f] = StoredConfig[f][1]
                 /\ StoredConfig[f] = None => last.body[f] = ShippingConfig[f]

\* The configuration was read from a document that has the radius and the
\* minimum, with values other than the defaults, and lacks the rate.
C11_Witness ==
    /\ last.op = "get_shipping_config_route"
    /\ settings # {}
    /\ StoredConfig.free_radius_km = Some(10000)
    /\ StoredConfig.min_shipping_cost = Some(5004)
    /\ StoredConfig.price_per_km = None
    /\ last.body.price_per_km = 1500
    /\ last.body.free_radius_km = 10000


\* The last request was an administrative update that was carried out.
Updated == last.op = "admin_update_shipping" /\ last.status = 200

\* C12: an update providing a non-empty set of fields leaves the resolved
\* configuration with the provided value for every provided field and, for
\* every other field, with the value it resolved to before the update; at
\* every update of any sequence of updates.
C12_PartialMerge ==
    [][ (last'.op = "admin_update_shipping" /\ last'.status = 200)
          => /\ \E f \in ConfigFields : last'.request[f] # None
             /\ \A f \in ConfigFields :
                   get_shipping_config(settings')[f] =
                       IF last'.request[f] # None THEN last'.request[f][1]
                       ELSE get_shipping_config(settings)[f] ]_vars

\* An update of the rate alone was carried out on a document that holds a
\* radius from an earlier update, and the radius is still there.
C12_Witness ==
    /\ Updated
    /\ last.request.price_per_km = Some(500)
    /\ last.request.free_radius_km = None
    /\ last.request.min_shipping_cost = None
    /\ StoredConfig.free_radius_km = Some(10000)
    /\ StoredConfig.price_per_km = Some(500)


-----------------------------------------------------------------------------
(* Pricing while the administrator changes the configuration: the shop of  *)
(* InitShop without a settings document, with updates of the radius and of *)
(* the rate and minimum between the calculations.                          *)

InitPricing == InitShop /\ settings = {}

\* Update bodies: the radius to 0 or to 10 km, or the rate to 0.50 with the
\* minimum to 5.004.
PricingUpdates ==
    {[store_lat |-> None, store_lng |-> None, free_radius_km |-> r,
      price_per_km |-> None, min_shipping_cost |-> None] :
          r \in {Some(0), Some(10000)}}
    \cup {[store_lat |-> None, store_lng |-> None, free_radius_km |-> None,
           price_per_km |-> Some(500), min_shipping_cost |-> Some(5004)]}

\* The destination 10 km north of the store, and an address without
\* latitude.
PricingAddresses ==
    {[lat |-> la, lng |-> Some(ShippingConfig.store_lng)] :
        la \in {None, Some(-120290963)}}

change_pricing ==
    \E t \in SessionTokens, config_data \in PricingUpdates :
        admin_update_shipping(t, config_data)

quote_priced == \E address \in PricingAddresses : calculate_shipping(address)

order_priced ==
    \E t \in SessionTokens, address \in PricingAddresses :
        /\ issued.order < MaxOrders
        /\ create_order(t, [items |-> ShopItems, shipping_address |-> address])

checkout_priced ==
    \E t \in SessionTokens, address \in PricingAddresses, stripe_ok \in BOOLEAN :
        /\ issued.txn < MaxTransactions
        /\ create_checkout(t, [shipping_address |-> address], stripe_ok)

NextPricing == change_pricing \/ quote_priced \/ order_priced \/ checkout_priced

SpecPricing == InitPricing /\ [][NextPricing]_vars

\* The configuration as last written: the fields of the settings document
\* over the defaults.
LastWritten ==
    [f \in ConfigFields |->
        IF settings # {} /\ StoredConfig[f] # None THEN StoredConfig[f][1]
        ELSE ShippingConfig[f]]

\* The cost of a destination under a configuration.
CostUnder(config, lat, lng) ==
    LET d == haversine_distance(config.store_lat, config.store_lng, lat, lng)
    IN  IF d <= config.free_radius_km THEN 0
        ELSE round2_product(Max((d - config.free_radius_km) * config.price_per_km,
                                config.min_shipping_cost * 1000))

\* The last exchange priced a destination: a standalone calculation, or an
\* order or a checkout that invoked the calculator.
Priced ==
    /\ last.status = 200
    /\ \/ last.op = "calculate_shipping"
       \/ /\ last.op \in {"create_order", "create_checkout"}
          /\ last.shipping_result # None

PricedAddress ==
    IF last.op = "calculate_shipping" THEN last.request
    ELSE last.request.shipping_address

\* C13: the configuration is not cached: every calculation (standalone,
\* order, checkout) uses the configuration as the updates completed before
\* it left it, the last write of a field winning.
C13_NoCaching ==
    Priced
        => last.body.shipping_cost =
               CostUnder(LastWritten, PricedAddress.lat[1], PricedAddress.lng[1])

\* An order was priced after an update of the radius and an update of the
\* rate, at a cost the default configuration does not give.
C13_Witness ==
    /\ last.op = "create_order"
    /\ Priced
    /\ settings # {}
    /\ StoredConfig.free_radius_km = Some(0)
    /\ StoredConfig.price_per_km = Some(500)
    /\ last.body.shipping_cost
          # CostUnder(ShippingConfig, PricedAddress.lat[1], PricedAddress.lng[1])
    /\ last.body \in orders


-----------------------------------------------------------------------------
(* Further properties of the shipping engine, checked under Spec.          *)

\* A destination away from the store was priced with a free radius of 0.
NoFreeRadius ==
    /\ Calculated
    /\ ConfigInForce.free_radius_km = 0
    /\ DistanceOfLast > 0

\* C14 as stated: with free_radius_km = 0 every destination at a distance
\* > 0 is not free and is charged at least min_shipping_cost.
C14_AtLeastMinimum ==
    NoFreeRadius
        => /\ last.body.is_free = FALSE
           /\ last.body.shipping_cost >= ConfigInForce.min_shipping_cost

\* C14 as amended: ... is not free and is charged at least min_shipping_cost
\* rounded to 2 decimals.
C14_AtLeastRoundedMinimum ==
    NoFreeRadius
        => /\ last.body.is_free = FALSE
           /\ last.body.shipping_cost >= round2(ConfigInForce.min_shipping_cost)

\* With a free radius of 0 a destination whose raw cost is below a minimum
\* of 5.004 was charged 5.0.
C14_Witness ==
    /\ NoFreeRadius
    /\ FloorApplies
    /\ ConfigInForce.min_shipping_cost = 5004
    /\ last.body.shipping_cost = 5000


\* The distance of the destination of the calculation a step makes.
DistanceOfNext ==
    haversine_distance(ConfigInForce.store_lat, ConfigInForce.store_lng,
                       last'.request.lat[1], last'.request.lng[1])

\* C15: of two destinations priced one after the other under the same
\* configuration, with price_per_km >= 0 and both beyond the free radius,
\* the nearer one does not cost more.
C15_Monotone ==
    [][ ( /\ Calculated
          /\ last'.op = "calculate_shipping" /\ last'.status = 200
          /\ settings' = settings
          /\ ConfigInForce.price_per_km >= 0
          /\ ConfigInForce.free_radius_km < DistanceOfLast
          /\ DistanceOfLast < DistanceOfNext )
        => last.body.shipping_cost <= last'.body.shipping_cost ]_vars

\* Under a rate of 0.50 and a radius of 0 a destination 10 km away was
\* priced above the minimum, as the farther of two destinations.
C15_Witness ==
    /\ Calculated
    /\ ConfigInForce.price_per_km = 500
    /\ ConfigInForce.free_radius_km = 0
    /\ ConfigInForce.min_shipping_cost = 0
    /\ DistanceOfLast = 10000
    /\ last.body.shipping_cost = 5000


\* The destination of the last calculation is the store itself.
AtStore ==
    /\ Calculated
    /\ last.request.lat = Some(ConfigInForce.store_lat)
    /\ last.request.lng = Some(ConfigInForce.store_lng)

\* C16: a destination identical to the store coordinate is at distance 0,
\* wherever the store is, and under the default configuration it has
\* distance_km = 0.0, cost 0.0 and is_free = true.
C16_IdentityDistance ==
    /\ AtStore => (DistanceOfLast = 0 /\ last.body.distance_km = 0)
    /\ (AtStore /\ settings = {})
          => /\ last.body.shipping_cost = 0
             /\ last.body.is_free = TRUE

\* The default store's own coordinate was priced under the defaults.
C16_Witness ==
    /\ AtStore
    /\ settings = {}
    /\ last.request.lat = Some(-121190285)
    /\ last.body.is_free = TRUE


\* C17: on the free and on the paid branch alike, distance_km and the cost
\* have at most 2 decimals (model amounts are thousandths, so they are
\* multiples of 10), distance_km being the unrounded distance rounded.
C17_TwoDecimals ==
    Calculated
        => /\ last.body.distance_km % 10 = 0
           /\ last.body.shipping_cost % 10 = 0
           /\ Abs(last.body.distance_km - DistanceOfLast) <= 5

\* A destination at a distance with 3 decimals (5.004 km) was priced at a
\* raw cost with 3 decimals (7.506) and reported as 5.0 km and 7.51.
C17_Witness ==
    /\ Calculated
    /\ DistanceOfLast = 5004
    /\ ConfigInForce.free_radius_km = 0
    /\ ConfigInForce.price_per_km = 1500
    /\ last.body.distance_km = 5000
    /\ last.body.shipping_cost = 7510


-----------------------------------------------------------------------------
(* Properties of registration, checked under Spec.                         *)

\* C18: a registration that succeeds gives the role admin exactly when no
\* user exists at that time and the role customer otherwise, in the answer
\* and in the stored user; so of the users registered in any sequence only
\* the first one is made admin.
C18_FirstUserAdmin ==
    /\ [][ (last'.op = "register" /\ last'.status = 200)
             => /\ last'.body.role = (IF users = {} THEN "admin" ELSE "customer")
                /\ \E u \in users' \ users :
                      /\ u.user_id = last'.body.user_id
                      /\ u.email = last'.request
                      /\ u.role = last'.body.role ]_vars
    /\ [](\A u \in users : u.role = "admin" <=> u.user_id = << "user", 1 >>)

\* A second user was registered, as a customer, after the first, the admin.
C18_Witness ==
    /\ last.op = "register"
    /\ last.status = 200
    /\ last.body.role = "customer"
    /\ Cardinality(users) = 2
    /\ \E u \in users : u.role = "admin" /\ u.email # last.request


-----------------------------------------------------------------------------
(* Sessions: registration, login, logout, GET /auth/me, changes of role by *)
(* an administrator and the passing of time, from an empty database.       *)

\* How many sessions the model creates, and how many times the life of a
\* session passes.
MaxSessions == 3

MaxPeriods == 1

\* Credentials: the registered emails and one nobody registers, the
\* registered password and another one.
Credentials ==
    {[email |-> e, password |-> p] :
        e \in Emails \cup {"nadie@ferreinti.pe"},
        p \in Passwords \cup {"otra"}}

\* The users ever created and one that never was.
UserIds == {<< "user", n >> : n \in 0..issued.user}

Roles == {"customer", "admin", "root"}

sign_up ==
    \E email \in Emails, password \in Passwords :
        /\ issued.token < MaxSessions
        /\ register(email, password)

sign_in ==
    \E credentials \in Credentials :
        /\ issued.token < MaxSessions
        /\ login(credentials)

who_am_i == \E t \in SessionTokens : get_me(t)

sign_out == \E t \in SessionTokens : logout(t)

change_role ==
    \E t \in SessionTokens, user_id \in UserIds, role \in Roles :
        admin_update_user_role(t, user_id, role)

later ==
    /\ now < MaxPeriods * (SessionDays + 1)
    /\ pass_time

NextAuth ==
    sign_up \/ sign_in \/ who_am_i \/ sign_out \/ change_role \/ later

SpecAuth == Init /\ [][NextAuth]_vars

\* The users a login with the credentials of the step's request is for.
Holders ==
    {u \in users :
        /\ u.email = last'.request.email
        /\ u.password = Some(<< "sha256", last'.request.password >>)}

\* Every registration stores the email with the hash of the password, and
\* no user, email or password is ever removed or changed.
CredentialsKept ==
    /\ (last'.op = "register" /\ last'.status = 200)
          => \E u \in users' :
                /\ u.email = last'.request
                /\ u.password \in {Some(<< "sha256", p >>) : p \in Passwords}
    /\ \A u \in users : \E v \in users' :
          /\ v.user_id = u.user_id
          /\ v.email = u.email
          /\ v.password = u.password

\* A login succeeds exactly for the email and password of a registered
\* user, and then answers with that user, its role and a new session token
\* that identifies the user; a login that fails answers 401 and creates no
\* session.
LoginOutcome ==
    last'.op = "login"
        => /\ last'.status \in {200, 401}
           /\ last'.status = 200 <=> Holders # {}
           /\ last'.status = 401 => user_sessions' = user_sessions
           /\ last'.status = 200 =>
                 \E u \in Holders :
                    /\ last'.body.user_id = u.user_id
                    /\ last'.body.email = u.email
                    /\ last'.body.role = u.role
                    /\ \A s \in user_sessions :
                          s.session_token # last'.body.session_token
                    /\ \E s \in user_sessions' :
                          /\ s.session_token = last'.body.session_token
                          /\ s.user_id = u.user_id
                          /\ s.expires_at >= now'

\* GET /auth/me answers 200 with the user of the token's session, as stored.
MeOutcome ==
    (last.op = "get_me" /\ last.status = 200)
        => \E s \in user_sessions, u \in users :
              /\ Some(s.session_token) = last.request
              /\ s.expires_at >= now
              /\ u.user_id = s.user_id
              /\ last.body = [user_id |-> u.user_id, email |-> u.email,
                              role |-> u.role]

\* The role register gave the user: admin to the first user, customer to
\* the others.
RoleAtRegistration(user_id) ==
    IF user_id = << "user", 1 >> THEN "admin" ELSE "customer"

-----------------------------------------------------------------------------
(* The administrative routes, called with every kind of session: none, a   *)
(* forged token, an expired session, a customer's, an administrator's.     *)

\* How many products the model creates.
MaxProducts == 1

\* The token of the caller: none, one never handed out, or one handed out.
AdminCallers == SessionTokens \cup {Some(<< "token", 0 >>)}

\* Update bodies, the empty one included.
AdminUpdates ==
    PricingUpdates
    \cup {[store_lat |-> None, store_lng |-> None, free_radius_km |-> None,
           price_per_km |-> None, min_shipping_cost |-> None]}

NewProducts == {[price |-> 2500, category_id |-> cat_manual]}

enrol == \E email \in Emails, password \in Passwords : register(email, password)

admin_reads_shipping == \E t \in AdminCallers : admin_get_shipping(t)

admin_sets_shipping ==
    \E t \in AdminCallers, config_data \in AdminUpdates :
        admin_update_shipping(t, config_data)

admin_adds_product ==
    \E t \in AdminCallers, product_data \in NewProducts :
        /\ issued.prod < MaxProducts
        /\ admin_create_product(t, product_data)

admin_sets_role ==
    \E t \in AdminCallers, user_id \in UserIds, role \in Roles :
        admin_update_user_role(t, user_id, role)

NextAdmin ==
    \/ enrol
    \/ later
    \/ admin_reads_shipping
    \/ admin_sets_shipping
    \/ admin_adds_product
    \/ admin_sets_role

SpecAdmin == Init /\ [][NextAdmin]_vars

\* The token is that of an unexpired session of an existing user / of an
\* administrator.
ValidSession(t) ==
    /\ t # None
    /\ \E s \in user_sessions, u \in users :
          /\ s.session_token = t[1]
          /\ s.expires_at >= now
          /\ u.user_id = s.user_id

AdminSession(t) ==
    /\ t # None
    /\ \E s \in user_sessions, u \in users :
          /\ s.session_token = t[1]
          /\ s.expires_at >= now
          /\ u.user_id = s.user_id
          /\ u.role = "admin"

\* The step is an administrative operation called with token t.
AdminCall(t) ==
    \/ admin_get_shipping(t)
    \/ \E config_data \in AdminUpdates : admin_update_shipping(t, config_data)
    \/ \E product_data \in NewProducts : admin_create_product(t, product_data)
    \/ \E user_id \in UserIds, role \in Roles :
          admin_update_user_role(t, user_id, role)

\* Rejected callers: 401 without a valid session, 403 with the session of a
\* user who is not an administrator, and the database stays as it was.
Rejections(t) ==
    /\ ~ValidSession(t)
          => /\ last'.status = 401
             /\ UNCHANGED << calls, auth_vars, shop_vars, settings >>
    /\ (ValidSession(t) /\ ~AdminSession(t))
          => /\ last'.status = 403
             /\ UNCHANGED << calls, auth_vars, shop_vars, settings >>

-----------------------------------------------------------------------------
(* The catalogue: products and categories created, changed and deleted by  *)
(* the administrator, from a database that holds the administrator and her *)
(* session.                                                                *)

\* How many categories the model creates.
MaxCategories == 1

InitCatalogue ==
    /\ users = {ShopUser}
    /\ user_sessions =
         {[session_token |-> << "token", 1 >>, user_id |-> ShopUser.user_id,
           expires_at |-> SessionDays]}
    /\ products = {}
    /\ categories = {}
    /\ carts = {}
    /\ orders = {}
    /\ payment_transactions = {}
    /\ settings = {}
    /\ issued = [user |-> 1, token |-> 1, prod |-> 0, cat |-> 0, order |-> 0,
                 txn |-> 0]
    /\ now = 0
    /\ last = Response("start", None, 0, None)
    /\ calls = {}

\* The products ever created and one that never was.
ProductIds == {<< "prod", n >> : n \in 0..issued.prod}

\* The categories ever created, a seeded one, and one that never was.
CategoryIds == {<< "cat", n >> : n \in 0..issued.cat} \cup {cat_manual}

\* ProductCreate bodies: a price and a category.
CatalogueProducts ==
    {[price |-> 2500, category_id |-> c] : c \in CategoryIds}

\* ProductUpdate bodies: every field absent or present, the empty body
\* included.
ProductUpdates ==
    {[price |-> a, category_id |-> c] :
        a \in {None, Some(9990)},
        c \in {None} \cup {Some(x) : x \in CategoryIds}}

creates_product ==
    \E t \in SessionTokens, product_data \in CatalogueProducts :
        /\ issued.prod < MaxProducts
        /\ admin_create_product(t, product_data)

reads_product == \E product_id \in ProductIds : get_product(product_id)

updates_product ==
    \E t \in SessionTokens, product_id \in ProductIds,
       product_data \in ProductUpdates :
        admin_update_product(t, product_id, product_data)

deletes_product ==
    \E t \in SessionTokens, product_id \in ProductIds :
        admin_delete_product(t, product_id)


CategoryNames == {"Herramientas"}

creates_category ==
    \E t \in SessionTokens, name \in CategoryNames :
        /\ issued.cat < MaxCategories
        /\ admin_create_category(t, [name |-> name])

deletes_category ==
    \E t \in SessionTokens, category_id \in CategoryIds :
        admin_delete_category(t, category_id)

NextCatalogue ==
    \/ creates_product
    \/ reads_product
    \/ updates_product
    \/ deletes_product
    \/ creates_category
    \/ deletes_category

SpecCatalogue == InitCatalogue /\ [][NextCatalogue]_vars

\* The step ran the body of the handler `op` (the caller was admitted).
Ran(op) == last'.op = op /\ last'.status \notin {401, 403}

\* The product the request of the step names, if it exists.
Named(product_id) == {p \in products : p.product_id = product_id}

\* A product created gets an identifier no product has, with the fields of
\* the request.
CreateProductOutcome ==
    Ran("admin_create_product")
        => /\ last'.status = 200
           /\ Named(last'.body.product_id) = {}
           /\ products' = products \cup
                 {[product_id  |-> last'.body.product_id,
                   price       |-> last'.request.price,
                   category_id |-> last'.request.category_id]}

\* An update with no field answers 400; with a field, 404 for a product
\* that does not exist and otherwise 200, the provided fields alone
\* changing; 400 and 404 change nothing.
UpdateProductOutcome ==
    Ran("admin_update_product")
        => LET P    == last'.request.product_id
               data == last'.request.product_data
               none == data.price = None /\ data.category_id = None
           IN  /\ last'.status = (IF none THEN 400
                                  ELSE IF Named(P) = {} THEN 404 ELSE 200)
               /\ last'.status # 200 => products' = products
               /\ last'.status = 200 =>
                     /\ \A p \in products :
                           p.product_id # P => p \in products'
                     /\ \A q \in products' :
                           q.product_id # P => q \in products
                     /\ \E p \in Named(P), q \in products' :
                           /\ q.product_id = P
                           /\ q.price = (IF data.price # None
                                         THEN data.price[1] ELSE p.price)
                           /\ q.category_id = (IF data.category_id # None
                                               THEN data.category_id[1]
                                               ELSE p.category_id)
                     /\ Cardinality(products') = Cardinality(products)

\* A delete answers 200 for a product that exists, which it removes, and
\* 404 otherwise.
DeleteProductOutcome ==
    Ran("admin_delete_product")
        => LET P == last'.request
           IN  /\ last'.status = (IF Named(P) = {} THEN 404 ELSE 200)
               /\ products' = {p \in products : p.product_id # P}

GetProductOutcome ==
    Ran("get_product")
        => LET P == last'.request
           IN  /\ last'.status = (IF Named(P) = {} THEN 404 ELSE 200)
               /\ last'.status = 200 => {last'.body} = Named(P)
               /\ products' = products

\* A product that was created and exists no longer does not come back.
DeletedForGood ==
    \A n \in 1..issued.prod :
        Named(<< "prod", n >>) = {}
            => \A q \in products' : q.product_id # << "prod", n >>

\* C21: a product created can be updated (at least one field: 200, only the
\* provided fields change; no field: 400, nothing changes) and deleted
\* (200), and from its deletion on every get, delete and update with a field
\* of it answers 404.
C21_ProductLifecycle ==
    [][ /\ CreateProductOutcome
        /\ UpdateProductOutcome
        /\ DeleteProductOutcome
        /\ GetProductOutcome
        /\ DeletedForGood ]_vars

\* The product created first was updated and deleted, and an update of its
\* price is now answered 404.
C21_Witness ==
    /\ last.op = "admin_update_product"
    /\ last.status = 404
    /\ last.request.product_id = << "prod", 1 >>
    /\ last.request.product_data.price # None
    /\ issued.prod >= 1
    /\ products = {}


\* The category the request of the step names, if it exists.
NamedCategory(category_id) ==
    {c \in categories : c.category_id = category_id}

\* The products of a category.
Referencing(category_id) ==
    {p \in products : p.category_id = category_id}

\* C22: admin_delete_category removes the category exactly when it exists
\* and no product has its category_id; a category some product references
\* is kept and the call answered 400, categories and products unchanged; a
\* category without products is deleted (200); no product is ever touched.
C22_DeleteCategoryIffUnreferenced ==
    [][ Ran("admin_delete_category")
          => LET C       == last'.request
                 removed == NamedCategory(C) # {} /\ Referencing(C) = {}
             IN  /\ categories' = IF removed
                                  THEN {c \in categories : c.category_id # C}
                                  ELSE categories
                 /\ products' = products
                 /\ Referencing(C) # {} <=> last'.status = 400
                 /\ removed <=> last'.status = 200 ]_vars

\* The deletion of an existing category that a product references was
\* answered 400.
C22_Witness ==
    /\ last.op = "admin_delete_category"
    /\ last.status = 400
    /\ NamedCategory(last.request) # {}
    /\ Referencing(last.request) # {}


-----------------------------------------------------------------------------
(* The settings record under every route that reads or writes it, and the  *)
(* seeding of the catalogue, from an administrator signed in on an empty   *)
(* database.                                                               *)

\* The ShippingConfigUpdate bodies: no field, one negative field, or a new
\* rate and minimum.
SettingsUpdates ==
    {[f \in ConfigFields |-> None]}
    \cup {[f \in ConfigFields |-> IF f = g THEN Some(-1000) ELSE None] :
            g \in {"free_radius_km", "price_per_km", "min_shipping_cost"}}
    \cup {[store_lat |-> None, store_lng |-> None, free_radius_km |-> None,
           price_per_km |-> Some(500), min_shipping_cost |-> Some(5004)]}

\* Destinations due north of the default store, at 0 m and 10000 m, and an
\* address without latitude.
SettingsAddresses ==
    {[lat |-> la, lng |-> Some(ShippingConfig.store_lng)] :
        la \in {None, Some(-121190285), Some(-120290963)}}

seeds == seed_data

sets_shipping ==
    \E t \in SessionTokens, config_data \in SettingsUpdates :
        admin_update_shipping(t, config_data)

gets_shipping == \E t \in SessionTokens : admin_get_shipping(t)

quotes == \E address \in SettingsAddresses : calculate_shipping(address)

shows_config == get_shipping_config_route

updates_seeded_product ==
    \E t \in SessionTokens, product_data \in ProductUpdates :
        admin_update_product(t, prod_001, product_data)

deletes_seeded_product ==
    \E t \in SessionTokens : admin_delete_product(t, prod_001)

NextSettings ==
    \/ seeds
    \/ sets_shipping
    \/ gets_shipping
    \/ quotes
    \/ shows_config
    \/ creates_category
    \/ deletes_category
    \/ updates_seeded_product
    \/ deletes_seeded_product

SpecSettings == InitCatalogue /\ [][NextSettings]_vars


\* C23: seed_data always answers 200; called while a category exists it
\* changes nothing (categories, products, settings and every other
\* collection stay); and it leaves a category behind, so that a seed after
\* a seed is such a call.
C23_SeedIdempotent ==
    [][ Ran("seed_data")
          => /\ last'.status = 200
             /\ categories # {}
                   => UNCHANGED << auth_vars, shop_vars, settings, issued >>
             /\ categories' # {} ]_vars

\* seed_data was called on a seeded catalogue whose settings an
\* administrator has changed since, and answered "Datos ya existentes".
C23_Witness ==
    /\ last.op = "seed_data"
    /\ last.body = FALSE
    /\ seed_categories \subseteq categories
    /\ settings # {}
    /\ settings # {seed_shipping_config}


\* C24: the settings record is created or changed by admin_update_shipping
\* alone, called by an administrator: every step that changes `settings` is
\* an admitted admin_update_shipping.
C24_OnlyAdminUpdateWrites ==
    [][ settings' # settings
          => /\ last'.op = "admin_update_shipping"
             /\ last'.status = 200 ]_vars


\* C25: the configuration in force never has a negative free_radius_km,
\* price_per_km or min_shipping_cost, and no shipping cost returned is
\* negative.
C25_NonNegative ==
    LET config == get_shipping_config(settings)
    IN  /\ config.free_radius_km >= 0
        /\ config.price_per_km >= 0
        /\ config.min_shipping_cost >= 0
        /\ (last.op = "calculate_shipping" /\ last.status = 200)
              => last.body.shipping_cost >= 0


\* The routes that only resolve the configuration or calculate a cost.
Readers ==
    {"get_shipping_config_route", "admin_get_shipping", "calculate_shipping"}

\* C27: resolving the configuration and calculating a shipping cost write
\* nothing: a step of a route that does only that leaves the settings and
\* every other collection as they were, and no settings document appears
\* where none existed.
C27_ReadsWriteNothing ==
    [][ last'.op \in Readers
          => UNCHANGED << settings, auth_vars, shop_vars, issued >> ]_vars

\* A cost was calculated from the defaults, and still no settings document
\* exists.
C27_Witness ==
    /\ last.op = "calculate_shipping"
    /\ last.status = 200
    /\ last.body.is_free = FALSE
    /\ settings = {}


-----------------------------------------------------------------------------
(* Requests served step by step.  A handler runs until it awaits the       *)
(* database, other requests are served meanwhile, and it resumes with what *)
(* the database answered: each await of a handler is one step, and `calls` *)
(* holds, for every request being served, the await it has reached (pc)    *)
(* and its local variables.                                                *)

\* How many requests are served at a time.
MaxCalls == 2

CallIds == 1..MaxCalls

\* The request `id` is being served and has reached `pc`.
Reached(id, pc) == {c \in calls : c.id = id /\ c.pc = pc}

\* POST /shipping/calculate arrives: 400 at once without both coordinates,
\* otherwise the handler runs up to the find_one of get_shipping_config.
calculate_shipping_called(id, address) ==
    /\ \A c \in calls : c.id # id
    /\ IF missing_coordinates(address)
       THEN /\ last' = Response("calculate_shipping", address, 400, None)
            /\ UNCHANGED calls
       ELSE /\ calls' = calls \cup
                   {[id |-> id, op |-> "calculate_shipping",
                     pc |-> "find_one", address |-> address,
                     db_settings |-> {}]}
            /\ UNCHANGED last
    /\ UNCHANGED << auth_vars, shop_vars, settings, issued, now >>

\* config = await db.settings.find_one({"setting_id": "shipping_config"}):
\* the database answers with the document as it is now.
calculate_shipping_found(id) ==
    \E c \in Reached(id, "find_one") :
        /\ c.op = "calculate_shipping"
        /\ calls' = (calls \ {c}) \cup
               {[c EXCEPT !.pc = "return", !.db_settings = settings]}
        /\ UNCHANGED << auth_vars, shop_vars, settings, issued, now, last >>

\* A variant that calculates from the document as it is when the handler
\* returns.
calculate_shipping_returned_late(id) ==
    \E c \in Reached(id, "return") :
        /\ c.op = "calculate_shipping"
        /\ last' = Response("calculate_shipping", c.address, 200,
                            calculate_shipping_cost(settings,
                                Val(c.address.lat), Val(c.address.lng)))
        /\ calls' = calls \ {c}
        /\ UNCHANGED << auth_vars, shop_vars, settings, issued, now >>

\* The rest of get_shipping_config and calculate_shipping_cost, which await
\* nothing more: the result is calculated from the document found.
calculate_shipping_returned(id) ==
    \E c \in Reached(id, "return") :
        /\ c.op = "calculate_shipping"
        /\ last' = Response("calculate_shipping", c.address, 200,
                            calculate_shipping_cost(c.db_settings,
                                Val(c.address.lat), Val(c.address.lng)))
        /\ calls' = calls \ {c}
        /\ UNCHANGED << auth_vars, shop_vars, settings, issued, now >>

\* Calculations for the destination 10 km north of the default store, or
\* without latitude, interleaved with administrative updates of the radius
\* (0 or 10 km) and of the rate and minimum.
NextInterleaved ==
    \/ \E id \in CallIds, address \in PricingAddresses :
          calculate_shipping_called(id, address)
    \/ \E id \in CallIds : calculate_shipping_found(id)
    \/ \E id \in CallIds : calculate_shipping_returned(id)
    \/ \E t \in SessionTokens, config_data \in PricingUpdates :
          admin_update_shipping(t, config_data)

SpecInterleaved == InitCatalogue /\ [][NextInterleaved]_vars


\* The calculation `id` being served, if any.
Serving(id) == {c \in calls : c.id = id}

\* C26: whatever administrative updates and other calculations a calculation
\* is interleaved with, (a) the configuration it reads is the settings
\* record as it is at that moment of the call, (b) nothing changes what it
\* has read, or its destination, until it returns, (c) its result is the
\* one calculated from that one configuration, and (d) a step of one
\* calculation leaves every other calculation as it is.
C26_OneConfiguration ==
    [][ \A id \in CallIds :
          /\ \A c \in Reached(id, "find_one") :
                Serving(id)' # {c}
                   => Serving(id)' = {[c EXCEPT !.pc = "return",
                                                !.db_settings = settings]}
          /\ \A c \in Reached(id, "return") :
                \/ Serving(id)' = {c}
                \/ /\ Serving(id)' = {}
                   /\ last' = Response("calculate_shipping", c.address, 200,
                                 calculate_shipping_cost(c.db_settings,
                                     Val(c.address.lat), Val(c.address.lng)))
          /\ Serving(id)' # Serving(id)
                => \A other \in CallIds \ {id} :
                      Serving(other)' = Serving(other) ]_vars

\* A calculation that read the settings before an administrative update has
\* returned after it, with the cost under the configuration it read, which
\* is not the cost under the configuration now stored, while another
\* calculation is being served.
C26_Witness ==
    /\ last.op = "calculate_shipping"
    /\ last.status = 200
    /\ last.body # calculate_shipping_cost(settings, Val(last.request.lat),
                                           Val(last.request.lng))
    /\ settings # {}
    /\ calls # {}


-----------------------------------------------------------------------------
(* Sign-ups served step by step: POST /auth/register and, once the identity *)
(* provider has answered with the e-mail of the account, POST               *)
(* /auth/google-session await the same sequence of database calls.          *)

\* The call can still be given a session token.
CanStart(id) ==
    /\ \A c \in calls : c.id # id
    /\ issued.token + Cardinality(calls) < MaxSessions

\* POST /auth/register arrives and runs up to its first await.
register_called(id, email, password) ==
    /\ CanStart(id)
    /\ calls' = calls \cup
          {[id |-> id, op |-> "register", pc |-> "find_one",
            email |-> email, password |-> Some(hash_password(password)),
            user_id |-> None, role |-> None]}
    /\ UNCHANGED << auth_vars, shop_vars, settings, issued, now, last >>

\* POST /auth/google-session: the provider has answered 200 with the
\* data of the account, of which the model keeps the e-mail.
google_session_called(id, email) ==
    /\ CanStart(id)
    /\ calls' = calls \cup
          {[id |-> id, op |-> "google_session", pc |-> "find_one",
            email |-> email, password |-> None,
            user_id |-> None, role |-> None]}
    /\ UNCHANGED << auth_vars, shop_vars, settings, issued, now, last >>

\* existing = await db.users.find_one({"email": ...}).  register answers 400
\* for an e-mail that exists; google_session goes on with the existing user
\* (its update_one changes name and picture, which the model does not keep);
\* otherwise both draw the user_id and go on to count the users.
users_find_one(id) ==
    \E c \in Reached(id, "find_one") :
        LET existing == {u \in users : u.email = c.email}
            user     == CHOOSE u \in existing : TRUE
        IN  /\ c.op \in {"register", "google_session"}
            /\ IF existing # {} /\ c.op = "register"
               THEN /\ calls' = calls \ {c}
                    /\ last' = Response("register", c.email, 400, None)
                    /\ UNCHANGED issued
               ELSE IF existing # {}
               THEN /\ calls' = (calls \ {c}) \cup
                          {[c EXCEPT !.pc = "session",
                                     !.user_id = Some(user.user_id),
                                     !.role = Some(user.role)]}
                    /\ UNCHANGED << issued, last >>
               ELSE /\ calls' = (calls \ {c}) \cup
                          {[c EXCEPT !.pc = "count_documents",
                                     !.user_id = Some(NewId("user"))]}
                    /\ issued' = Issue("user")
                    /\ UNCHANGED last
            /\ UNCHANGED << auth_vars, shop_vars, settings, now >>

\* user_count = await db.users.count_documents({}), and the role from it.
users_count_documents(id) ==
    \E c \in Reached(id, "count_documents") :
        /\ calls' = (calls \ {c}) \cup
              {[c EXCEPT !.pc = "insert_one",
                         !.role = Some(role_for(Cardinality(users)))]}
        /\ UNCHANGED << auth_vars, shop_vars, settings, issued, now, last >>

\* await db.users.insert_one(user_doc)
users_insert_one(id) ==
    \E c \in Reached(id, "insert_one") :
        /\ users' = users \cup
              {[user_id |-> Val(c.user_id), email |-> c.email,
                password |-> c.password, role |-> Val(c.role)]}
        /\ calls' = (calls \ {c}) \cup {[c EXCEPT !.pc = "session"]}
        /\ UNCHANGED << user_sessions, shop_vars, settings, issued, now,
                        last >>

\* await db.user_sessions.insert_one(session_doc), and the response.
user_sessions_insert_one(id) ==
    \E c \in Reached(id, "session") :
        LET session_token == NewId("token")
        IN  /\ user_sessions' = user_sessions \cup
                  {[session_token |-> session_token,
                    user_id |-> Val(c.user_id),
                    expires_at |-> now + SessionDays]}
            /\ issued' = Issue("token")
            /\ calls' = calls \ {c}
            /\ last' = Response(c.op, c.email, 200,
                                [user_id |-> Val(c.user_id),
                                 role |-> Val(c.role),
                                 session_token |-> session_token])
            /\ UNCHANGED << users, shop_vars, settings, now >>

NextSignUps ==
    \/ \E id \in CallIds, email \in Emails, password \in Passwords :
          register_called(id, email, password)
    \/ \E id \in CallIds, email \in Emails : google_session_called(id, email)
    \/ \E id \in CallIds : users_find_one(id)
    \/ \E id \in CallIds : users_count_documents(id)
    \/ \E id \in CallIds : users_insert_one(id)
    \/ \E id \in CallIds : user_sessions_insert_one(id)

SpecSignUps == Init /\ [][NextSignUps]_vars

\* C28: however sign-ups on an empty users collection interleave, at most
\* one user has the role admin and no two users have the same e-mail.
C28_OneAdminDistinctEmails ==
    /\ Cardinality({u \in users : u.role = "admin"}) <= 1
    /\ \A u, v \in users : u.email = v.email => u = v


-----------------------------------------------------------------------------
(* The cart of one user, who is signed in and has no cart yet.             *)

\* The largest quantity the model lets an entry of the cart reach.
MaxQuantity == 3

CartProducts == {<< "prod", 1 >>, << "prod", 2 >>}

\* The CartItem bodies: quantity is an int without bounds.
CartItems ==
    {[product_id |-> p, quantity |-> q] : p \in CartProducts, q \in -1..2}

\* The items of the user's cart (none without a cart).
CartOf(user_id) ==
    IF find_cart(user_id) = None THEN << >>
    ELSE Val(find_cart(user_id)).items

\* The quantity of the product in the items.
QuantityOf(items, product_id) ==
    LET hits == {i \in 1..Len(items) : items[i].product_id = product_id}
    IN  IF hits = {} THEN 0 ELSE items[CHOOSE i \in hits : TRUE].quantity

adds_to_cart ==
    \E t \in SessionTokens, item \in CartItems :
        /\ QuantityOf(CartOf(ShopUser.user_id), item.product_id)
              + item.quantity \in -1..MaxQuantity
        /\ add_to_cart(t, item)

updates_cart_item ==
    \E t \in SessionTokens, item \in CartItems : update_cart_item(t, item)

removes_from_cart ==
    \E t \in SessionTokens, product_id \in CartProducts :
        remove_from_cart(t, product_id)

clears_cart == \E t \in SessionTokens : clear_cart(t)

NextCart ==
    \/ adds_to_cart
    \/ updates_cart_item
    \/ removes_from_cart
    \/ clears_cart

SpecCart == InitCatalogue /\ [][NextCart]_vars

\* The entries of the items for the product.
EntriesOf(items, product_id) ==
    {i \in 1..Len(items) : items[i].product_id = product_id}

\* No two entries of the user's cart have the same product_id.
OneEntryPerProduct ==
    \A c \in carts : \A i, j \in 1..Len(c.items) :
        c.items[i].product_id = c.items[j].product_id => i = j

\* add_to_cart of a product the cart holds adds the quantity to its entry
\* and appends nothing; of another product, it appends the item.
AddOutcome ==
    (last'.op = "add_to_cart" /\ last'.status = 200)
        => LET item   == last'.request
               before == CartOf(ShopUser.user_id)
               after  == CartOf(ShopUser.user_id)'
           IN  IF EntriesOf(before, item.product_id) # {}
               THEN /\ Len(after) = Len(before)
                    /\ \A i \in 1..Len(before) :
                          /\ after[i].product_id = before[i].product_id
                          /\ after[i].quantity = before[i].quantity +
                                (IF before[i].product_id = item.product_id
                                 THEN item.quantity ELSE 0)
               ELSE after = Append(before, item)

\* update_cart_item with a quantity <= 0 leaves no entry of the product and
\* every other entry as it was.
UpdateOutcome ==
    (last'.op = "update_cart_item" /\ last'.status = 200
        /\ last'.request.quantity <= 0)
        => LET item   == last'.request
               before == CartOf(ShopUser.user_id)
               after  == CartOf(ShopUser.user_id)'
           IN  after = SelectSeq(before,
                                 LAMBDA x : x.product_id # item.product_id)

\* C29: after any sequence of add_to_cart, update_cart_item,
\* remove_from_cart and clear_cart calls of one user, the cart has at most
\* one entry per product_id; adding a product the cart holds adds the
\* quantity to its entry; update_cart_item with quantity <= 0 removes the
\* entry.
C29_OneEntryPerProduct ==
    /\ []OneEntryPerProduct
    /\ [][AddOutcome /\ UpdateOutcome]_vars

\* A product was added to a cart that held it, next to another product, and
\* its entry now has the sum of the quantities.
C29_Witness ==
    /\ last.op = "add_to_cart"
    /\ last.status = 200
    /\ Len(CartOf(ShopUser.user_id)) = 2
    /\ QuantityOf(CartOf(ShopUser.user_id), last.request.product_id)
          > last.request.quantity
    /\ last.request.quantity > 0


-----------------------------------------------------------------------------
(* The status of orders, in the shop that is set up.                       *)

\* The statuses requests ask for: the five of an order, "paid" and "".
Statuses ==
    {"pending", "confirmed", "shipped", "delivered", "cancelled", "paid", ""}

\* The orders ever created and one that never was.
OrderIds == {<< "order", n >> : n \in 0..issued.order}

\* An order of the second product to the default store.
orders_one ==
    \E t \in SessionTokens :
        /\ issued.order < MaxOrders
        /\ create_order(t,
              [items |-> << [product_id |-> << "prod", 2 >>, quantity |-> 3] >>,
               shipping_address |-> [lat |-> Some(ShippingConfig.store_lat),
                                     lng |-> Some(ShippingConfig.store_lng)]])

sets_order_status ==
    \E t \in SessionTokens, order_id \in OrderIds, status \in Statuses :
        admin_update_order_status(t, order_id, [status |-> status])

signs_up ==
    \E email \in Emails, password \in Passwords : register(email, password)

NextStatus == orders_one \/ sets_order_status \/ signs_up

SpecStatus == InitShop /\ [][NextStatus]_vars

\* The statuses an order may have.
OrderStatuses == {"pending", "confirmed", "shipped", "delivered", "cancelled"}

\* Every order has one of the five statuses.
StatusValid == \A o \in orders : o.status \in OrderStatuses

\* The order created by the step has the status pending.
CreatedPending ==
    (last'.op = "create_order" /\ last'.status = 200)
        => /\ last'.body.status = "pending"
           /\ orders' = orders \cup {last'.body}
           /\ last'.body \notin orders

\* An admitted status update answers 400 for a status that is not one of
\* the five, 404 for a valid status and an unknown order, and 200
\* otherwise; 400 and 404 change no order, 200 changes the status of the
\* order named and nothing else.
StatusUpdateOutcome ==
    Ran("admin_update_order_status")
        => LET order_id == last'.request.order_id
               status   == last'.request.status_data.status
               known    == \E o \in orders : o.order_id = order_id
           IN  /\ last'.status = (IF status \notin OrderStatuses THEN 400
                                  ELSE IF ~known THEN 404 ELSE 200)
               /\ last'.status # 200 => orders' = orders
               /\ last'.status = 200
                     => orders' = {IF o.order_id = order_id
                                   THEN [o EXCEPT !.status = status]
                                   ELSE o : o \in orders}

\* C30: every order is created pending and its status is always one of
\* pending, confirmed, shipped, delivered, cancelled; admin_update_order_status
\* answers 400 for any other status and 404 for an unknown order_id, and
\* changes no order in either case.
C30_StatusAlwaysValid ==
    /\ []StatusValid
    /\ [][CreatedPending /\ StatusUpdateOutcome]_vars

\* The status "paid" was asked for an order that exists and was shipped,
\* and answered 400.
C30_Witness ==
    /\ last.op = "admin_update_order_status"
    /\ last.status = 400
    /\ last.request.status_data.status = "paid"
    /\ \E o \in orders : /\ o.order_id = last.request.order_id
                         /\ o.status = "shipped"


=============================================================================
